---- MODULE Spec2Model ----
(***************************************************************************)
(* usbll2sr: reconstruction of USB low-/full-speed line signalling from a  *)
(* packet capture, written as a sigrok session archive.                    *)
(*                                                                         *)
(* Three layers are modelled from usbll2sr.py, each under its own          *)
(* specification:                                                          *)
(*   SimpleSRWriter  the sliced archive writer            (SpecWriter)     *)
(*   USBSignaling    the NRZI / bit-stuffing encoder      (SpecEncoder)    *)
(*   emit_bytes      as a function of payload and state   (SpecBytes)      *)
(*   __main__        the timing loop driving both         (Spec)           *)
(***************************************************************************)
EXTENDS Integers, Sequences, FiniteSets, TLC

VARIABLES
    sr,               \* the SimpleSRWriter object (module-level name `sr`)
    usb,              \* the USBSignaling object
    args,             \* parsed command line
    pcap,             \* the packets: sequence of [time, load]
    pc,               \* position of __main__ / of the API caller
    pkt_i,            \* index of the packet the for loop is at
    last_pkt_at,      \* __main__ local
    begins_at_ticks,  \* __main__ local
    ends_at_ticks,    \* __main__ local
    error,            \* exception that left the with block, or "none"
    written,          \* history: every byte accepted by write_samples, in order
    chirps,           \* history: every chirp symbol handed to emit_chirps
    pktlog,           \* history: sample positions bracketing each packet
    closes,           \* history: number of close() calls
    peak,             \* history: largest length the slice buffer ever had
    call              \* history: the last API call, its input and its result

vars == <<sr, usb, args, pcap, pc, pkt_i, last_pkt_at, begins_at_ticks,
          ends_at_ticks, error, written, chirps, pktlog, closes, peak, call>>

runvars == <<args, pcap, pkt_i, last_pkt_at, begins_at_ticks, ends_at_ticks,
             error, pktlog>>

\* ------------------------------------------------------------------ bounds

MaxSliceLimit == 2      \* slice limits 1..MaxSliceLimit
MaxWriteLen == 2        \* length of one write_samples buffer
MaxTotalBytes == 5      \* bytes written to one writer in SpecWriter
MaxLoopPasses == 5      \* passes of write_samples' loop followed (SpecLoop)
MaxFillCount == 2       \* count argument of fill_sample
MaxInterpolate == 2     \* interpolation factors 1..MaxInterpolate
MaxPayloadLen == 2      \* bytes in one emit_bytes payload (SpecBytes)
MaxSeqPayloadLen == 1   \* bytes in one emit_bytes payload (SpecEncoder)
MaxStall == 2           \* cycles argument of emit_stall (SpecEncoder)
MaxCalls == 2           \* encoder calls in one behaviour (SpecEncoder)
MaxPackets == 2         \* packets in the capture (Spec)
MaxDriftPackets == 4    \* packets in the capture (SpecDrift)
MaxPad == 1             \* start / end padding, in cycles (Spec)
TimeSub == 2            \* timestamps resolve 1/TimeSub of a full-speed cycle
ScaledSliceLimit == 16  \* a slice limit small enough for a run to fill slices

\* --------------------------------------------------------------- utilities

Max(a, b) == IF a >= b THEN a ELSE b

SeqsUpTo(S, n) == UNION {[1..k -> S] : k \in 0..n}

\* Python's `pattern * count` for a sequence (empty when count <= 0).
Repeat(s, n) ==
    IF n <= 0 \/ s = <<>> THEN <<>>
    ELSE [i \in 1..(Len(s) * n) |-> s[((i - 1) % Len(s)) + 1]]

RECURSIVE Flatten(_)
Flatten(ss) == IF ss = <<>> THEN <<>> ELSE Head(ss) \o Flatten(Tail(ss))

\* ================================================================= writer

USB_SPEED == [ls |-> 1500000, fs |-> 12000000]

DefaultSliceLimit == 16777216

\* Python's -(-n // 8): TLA+'s \div floors, as // does.
UnitSize(channels) == -((-Len(channels)) \div 8)

Metadata(channels, sample_rate, capture_file, unit_size) ==
    [sigrok_version |-> "0.7.1", capturefile |-> capture_file,
     total_probes |-> Len(channels), samplerate |-> sample_rate,
     total_analog |-> 0, probes |-> channels, unitsize |-> unit_size]

\* SimpleSRWriter.__init__: the archive is opened, `version` and `metadata`
\* are written at once, the first slice is number 1 and empty.
SimpleSRWriter(channels, sample_rate, slice_limit) ==
    [channels |-> channels,
     sample_rate |-> sample_rate,
     capture_file |-> "logic-1",
     unit_size |-> UnitSize(channels),
     entries |-> << [name |-> "version", index |-> 0, data |-> <<50>>],
                    [name |-> "metadata", index |-> 0,
                     data |-> Metadata(channels, sample_rate, "logic-1",
                                       UnitSize(channels))] >>,
     current_slice |-> 1,
     slice_limit |-> slice_limit,
     slice_buffer |-> <<>>,
     sample_counter |-> 0,
     closed |-> FALSE]

\* Mutant: the slice number is not advanced after a flush.
finalize_keeps_index(w) ==
    [w EXCEPT !.entries = Append(@, [name |-> w.capture_file,
                                     index |-> w.current_slice,
                                     data |-> w.slice_buffer]),
              !.slice_buffer = <<>>]

\* _finalize_current_slice: the buffer becomes entry logic-1-<current_slice>.
finalize_current_slice(w) ==
    [w EXCEPT !.entries = Append(@, [name |-> w.capture_file,
                                     index |-> w.current_slice,
                                     data |-> w.slice_buffer]),
              !.slice_buffer = <<>>,
              !.current_slice = @ + 1]

\* Mutant: the room left is taken to be the whole limit (tell() forgotten).
write_loop_step_ignores_tell(w, mv) ==
    LET remaining == w.slice_limit IN
    IF Len(mv) > remaining
    THEN [w |-> finalize_current_slice(
                   [w EXCEPT !.slice_buffer = @ \o SubSeq(mv, 1, remaining)]),
          mv |-> SubSeq(mv, remaining + 1, Len(mv)),
          brk |-> FALSE,
          held |-> Len(w.slice_buffer) + remaining]
    ELSE [w |-> [w EXCEPT !.slice_buffer = @ \o mv],
          mv |-> <<>>,
          brk |-> TRUE,
          held |-> Len(w.slice_buffer) + Len(mv)]

\* Mutant: after a split the view is not advanced past the part written.
write_loop_step_keeps_mv(w, mv) ==
    LET remaining == w.slice_limit - Len(w.slice_buffer) IN
    IF Len(mv) > remaining
    THEN [w |-> finalize_current_slice(
                   [w EXCEPT !.slice_buffer = @ \o SubSeq(mv, 1, remaining)]),
          mv |-> mv,
          brk |-> FALSE,
          held |-> Len(w.slice_buffer) + remaining]
    ELSE [w |-> [w EXCEPT !.slice_buffer = @ \o mv],
          mv |-> <<>>,
          brk |-> TRUE,
          held |-> Len(w.slice_buffer) + Len(mv)]

\* One pass through the body of write_samples' while loop. `held` is the
\* length the slice buffer has right after this pass's write.
write_loop_step(w, mv) ==
    LET remaining == w.slice_limit - Len(w.slice_buffer) IN
    IF Len(mv) > remaining
    THEN [w |-> finalize_current_slice(
                   [w EXCEPT !.slice_buffer = @ \o SubSeq(mv, 1, remaining)]),
          mv |-> SubSeq(mv, remaining + 1, Len(mv)),
          brk |-> FALSE,
          held |-> Len(w.slice_buffer) + remaining]
    ELSE [w |-> [w EXCEPT !.slice_buffer = @ \o mv],
          mv |-> <<>>,
          brk |-> TRUE,
          held |-> Len(w.slice_buffer) + Len(mv)]

RECURSIVE write_loop(_, _, _)
\* The while loop of write_samples, run to its break.
write_loop(w, mv, held) ==
    LET s == write_loop_step(w, mv) IN
    IF s.brk THEN [w |-> s.w, held |-> Max(held, s.held)]
    ELSE write_loop(s.w, s.mv, Max(held, s.held))

\* Mutant: the alignment test comes after the bytes went into the buffer.
write_samples_checks_late(w, samples) ==
    LET r == write_loop(w, samples, Len(w.slice_buffer)) IN
    IF Len(samples) % w.unit_size # 0
    THEN [w |-> r.w, err |-> "ValueError", held |-> r.held, wrote |-> <<>>]
    ELSE [w |-> [r.w EXCEPT !.sample_counter =
                               @ + (Len(samples) \div w.unit_size)],
          err |-> "none", held |-> r.held, wrote |-> samples]

\* write_samples: [w: the writer after the call, err, held, wrote].
write_samples(w, samples) ==
    IF Len(samples) % w.unit_size # 0
    THEN [w |-> w, err |-> "ValueError", held |-> Len(w.slice_buffer),
          wrote |-> <<>>]
    ELSE LET r == write_loop(w, samples, Len(w.slice_buffer)) IN
         [w |-> [r.w EXCEPT !.sample_counter =
                                @ + (Len(samples) \div w.unit_size)],
          err |-> "none", held |-> r.held, wrote |-> samples]

\* fill_sample: write_samples(pattern * count), then the counter once more.
fill_sample(w, pattern, count) ==
    LET total_length == Len(pattern) * count IN
    IF total_length % w.unit_size # 0
    THEN [w |-> w, err |-> "ValueError", held |-> Len(w.slice_buffer),
          wrote |-> <<>>]
    ELSE LET r == write_samples(w, Repeat(pattern, count)) IN
         [r EXCEPT !.w.sample_counter = @ + (total_length \div w.unit_size)]

sample_count(w) == w.sample_counter

\* Mutant: close seals the archive without flushing the pending slice.
close_without_flush(w) == [w EXCEPT !.closed = TRUE]

\* close: flush the pending slice (empty or not), seal the archive.
close(w) == [finalize_current_slice(w) EXCEPT !.closed = TRUE]

\* ---- what an archive holds

SliceEntries(w) == SelectSeq(w.entries, LAMBDA e : e.name = w.capture_file)

RECURSIVE SumLen(_)
SumLen(es) == IF es = <<>> THEN 0 ELSE Len(Head(es).data) + SumLen(Tail(es))

SliceData(w) == Flatten([k \in 1..Len(SliceEntries(w)) |-> SliceEntries(w)[k].data])

\* ====================================================== writer API harness

SampleBytes == {0, 1}

ProbeNames(n) == [k \in 1..n |-> k]

NoUsb == [state |-> "j"]
NoArgs == [signaling |-> "fs"]

WriterInit ==
    /\ \E n \in {2, 9}, lim \in 1..MaxSliceLimit :
          sr = SimpleSRWriter(ProbeNames(n), USB_SPEED["fs"], lim)
    /\ usb = NoUsb
    /\ args = NoArgs
    /\ pcap = <<>>
    /\ pc = "api"
    /\ pkt_i = 0
    /\ last_pkt_at = 0
    /\ begins_at_ticks = 0
    /\ ends_at_ticks = 0
    /\ error = "none"
    /\ written = <<>>
    /\ chirps = <<>>
    /\ pktlog = <<>>
    /\ closes = 0
    /\ peak = 0
    /\ call = [op |-> "init"]

WriteSamples ==
    /\ pc = "api"
    /\ \E s \in SeqsUpTo(SampleBytes, MaxWriteLen) :
          /\ Len(written) + Len(s) <= MaxTotalBytes
          /\ LET r == write_samples(sr, s) IN
             /\ sr' = r.w
             /\ written' = written \o r.wrote
             /\ peak' = Max(peak, r.held)
             /\ call' = [op |-> "write_samples", samples |-> s,
                         err |-> r.err, pre |-> sr]
    /\ UNCHANGED <<usb, pc, chirps, closes>>
    /\ UNCHANGED runvars

FillSample ==
    /\ pc = "api"
    /\ \E p \in SeqsUpTo(SampleBytes, MaxWriteLen), c \in 0..MaxFillCount :
          /\ Len(written) + Len(p) * c <= MaxTotalBytes
          /\ LET r == fill_sample(sr, p, c) IN
             /\ sr' = r.w
             /\ written' = written \o r.wrote
             /\ peak' = Max(peak, r.held)
             /\ call' = [op |-> "fill_sample", samples |-> Repeat(p, c),
                         err |-> r.err, pre |-> sr]
    /\ UNCHANGED <<usb, pc, chirps, closes>>
    /\ UNCHANGED runvars

Close ==
    /\ pc = "api"
    /\ sr' = close(sr)
    /\ closes' = closes + 1
    /\ pc' = "done"
    /\ call' = [op |-> "close", pre |-> sr]
    /\ UNCHANGED <<usb, written, chirps, peak>>
    /\ UNCHANGED runvars

WriterNext == WriteSamples \/ FillSample \/ Close

SpecWriter == WriterInit /\ [][WriterNext]_vars

\* ============================================ write_samples, pass by pass

\* The while loop of write_samples taken one pass at a time, so that a call
\* that does not come back is a behaviour of the model and not a divergence
\* of write_loop.  A writer may be built with slice_limit 0 here.

LoopInit ==
    /\ \E n \in {2, 9}, lim \in 0..MaxSliceLimit :
          sr = SimpleSRWriter(ProbeNames(n), USB_SPEED["fs"], lim)
    /\ usb = NoUsb
    /\ args = NoArgs
    /\ pcap = <<>>
    /\ pc = "api"
    /\ pkt_i = 0
    /\ last_pkt_at = 0
    /\ begins_at_ticks = 0
    /\ ends_at_ticks = 0
    /\ error = "none"
    /\ written = <<>>
    /\ chirps = <<>>
    /\ pktlog = <<>>
    /\ closes = 0
    /\ peak = 0
    /\ call = [op |-> "init"]

\* Entry of write_samples: the alignment test, then `mv` is the whole input.
LoopCall ==
    /\ pc = "api"
    /\ \E s \in SeqsUpTo(SampleBytes, MaxWriteLen) :
          /\ Len(written) + Len(s) <= MaxTotalBytes
          /\ IF Len(s) % sr.unit_size # 0
             THEN /\ call' = [op |-> "write_samples", samples |-> s,
                              err |-> "ValueError", pre |-> sr, mv |-> s,
                              passes |-> 0, returned |-> TRUE]
                  /\ pc' = "api"
             ELSE /\ call' = [op |-> "write_samples", samples |-> s,
                              err |-> "none", pre |-> sr, mv |-> s,
                              passes |-> 0, returned |-> FALSE]
                  /\ pc' = "loop"
    /\ UNCHANGED <<sr, usb, written, chirps, closes, peak>>
    /\ UNCHANGED runvars

\* One pass through `while True:`; the number of passes is capped.
LoopPass ==
    /\ pc = "loop"
    /\ call.passes < MaxLoopPasses
    /\ LET s == write_loop_step(sr, call.mv) IN
       /\ sr' = s.w
       /\ peak' = Max(peak, s.held)
       /\ call' = [call EXCEPT !.mv = s.mv, !.passes = @ + 1]
       /\ pc' = IF s.brk THEN "counting" ELSE "loop"
    /\ UNCHANGED <<usb, written, chirps, closes>>
    /\ UNCHANGED runvars

\* After the break: the sample counter, then the call returns.
LoopReturn ==
    /\ pc = "counting"
    /\ sr' = [sr EXCEPT !.sample_counter =
                            @ + (Len(call.samples) \div sr.unit_size)]
    /\ written' = written \o call.samples
    /\ call' = [call EXCEPT !.returned = TRUE]
    /\ pc' = "api"
    /\ UNCHANGED <<usb, chirps, closes, peak>>
    /\ UNCHANGED runvars

LoopNext == LoopCall \/ LoopPass \/ LoopReturn

SpecLoop == LoopInit /\ [][LoopNext]_vars

\* ================================================================ encoder

CHIRP_TO_SAMPLE ==
    [ls |-> [j |-> 1, k |-> 2, s |-> 0, S |-> 3],
     fs |-> [j |-> 2, k |-> 1, s |-> 0, S |-> 3]]

\* USBSignaling.__init__(self, sr, interpolate, signaling).
USBSignaling(sr_arg, interpolate, signaling) ==
    [state |-> "j",
     sr |-> sr_arg,
     c2s |-> CHIRP_TO_SAMPLE[signaling],
     interpolate |-> interpolate]

\* _double: each chirp's sample, `interpolate` times (range(n) is empty for
\* n <= 0).
Double(u, seq) ==
    IF u.interpolate <= 0 THEN <<>>
    ELSE [i \in 1..(Len(seq) * u.interpolate) |->
             u.c2s[seq[((i - 1) \div u.interpolate) + 1]]]

\* emit_chirps writes through the module-level writer `w`, not through
\* self._sr. Result: [usb, sr, err, held, wrote].
emit_chirps(u, w, seq, update_state) ==
    LET r == write_samples(w, Double(u, seq)) IN
    [usb |-> IF r.err = "none" /\ update_state
             THEN [u EXCEPT !.state = seq[Len(seq)]]
             ELSE u,
     sr |-> r.w, err |-> r.err, held |-> r.held, wrote |-> r.wrote,
     seq |-> IF r.err = "none" THEN seq ELSE <<>>]

SYNC == <<"k", "j", "k", "j", "k", "j", "k", "k">>
EOP == <<"s", "s", "j">>

\* Mutant: the SYNC pattern is written but the line state is not stored.
emit_sync_keeps_state(u, w) == emit_chirps(u, w, SYNC, FALSE)

emit_sync(u, w) == emit_chirps(u, w, SYNC, TRUE)

\* Mutant: the EOP pattern is written but the line state is not stored.
emit_eop_keeps_state(u, w) == emit_chirps(u, w, EOP, FALSE)

emit_eop(u, w) == emit_chirps(u, w, EOP, TRUE)

\* Mutant: a negative cycle count is taken for "nothing to do".
emit_stall_ignores_negative(u, w, cycles) ==
    IF cycles <= 0
    THEN [usb |-> u, sr |-> w, err |-> "none",
          held |-> Len(w.slice_buffer), wrote |-> <<>>, seq |-> <<>>]
    ELSE emit_chirps(u, w, Repeat(<<u.state>>, cycles), TRUE)

emit_stall(u, w, cycles) ==
    IF cycles < 0
    THEN [usb |-> u, sr |-> w, err |-> "ValueError",
          held |-> Len(w.slice_buffer), wrote |-> <<>>, seq |-> <<>>]
    ELSE IF cycles = 0
    THEN [usb |-> u, sr |-> w, err |-> "none",
          held |-> Len(w.slice_buffer), wrote |-> <<>>, seq |-> <<>>]
    ELSE emit_chirps(u, w, Repeat(<<u.state>>, cycles), TRUE)

\* ---- _to_chirp, the generator inside emit_bytes

JK == <<"j", "k">>                \* _jk, indexed from 1 here

\* Mutant: the generator starts from the level opposite to the stored one.
JKIndex_swapped(c) == IF c = "j" THEN 1 ELSE 0

JKIndex(c) == IF c = "j" THEN 0 ELSE 1         \* _jk.index(c)

Toggle(tmp) == 1 - tmp                         \* ~tmp & 1 on a 0/1 value

\* Mutant: the stuffed symbol comes one bit late.
StuffDue_late(stuff) == stuff >= 7

\* `if stuff >= 6`
StuffDue(stuff) == stuff >= 6

\* The body of `for _ in range(8)` for one data bit; acc = [tmp, stuff, out,
\* stuffed].  The stuffing branch toggles and yields; it leaves `stuff` as it
\* is.  `stuffed` records the positions in `out` of the symbols yielded by
\* the stuffing branch (the second `yield`), the others come from the first.
to_chirp_bit(acc, bit) ==
    LET tmp1 == IF bit = 0 THEN Toggle(acc.tmp) ELSE acc.tmp
        stuff1 == IF bit = 0 THEN 0 ELSE acc.stuff + 1
        out1 == Append(acc.out, JK[tmp1 + 1])
    IN  IF StuffDue(stuff1)
        THEN [tmp |-> Toggle(tmp1), stuff |-> stuff1,
              out |-> Append(out1, JK[Toggle(tmp1) + 1]),
              stuffed |-> acc.stuffed \cup {Len(out1) + 1}]
        ELSE [tmp |-> tmp1, stuff |-> stuff1, out |-> out1,
              stuffed |-> acc.stuffed]

RECURSIVE to_chirp_byte(_, _, _)
\* `for _ in range(8)`: byte & 1, then byte >>= 1.
to_chirp_byte(acc, byte, n) ==
    IF n = 0 THEN acc
    ELSE to_chirp_byte(to_chirp_bit(acc, byte % 2), byte \div 2, n - 1)

RECURSIVE to_chirp_seq(_, _)
to_chirp_seq(acc, seq) ==
    IF seq = <<>> THEN acc
    ELSE to_chirp_seq(to_chirp_byte(acc, Head(seq), 8), Tail(seq))

\* _to_chirp(seq) from line state `state`: the chirps it yields and the
\* state it stores once exhausted.
to_chirp(state, seq) ==
    LET r == to_chirp_seq([tmp |-> JKIndex(state), stuff |-> 0, out |-> <<>>,
                           stuffed |-> {}], seq)
    IN  [out |-> r.out, state |-> JK[r.tmp + 1], stuffed |-> r.stuffed]

\* Mutant: the generator's final level is not stored.
emit_bytes_keeps_state(u, w, seq) ==
    emit_chirps(u, w, to_chirp(u.state, seq).out, FALSE)

\* emit_bytes: bytes() drains the generator (which stores the state) before
\* write_samples is reached.
emit_bytes(u, w, seq) ==
    LET r == to_chirp(u.state, seq) IN
    emit_chirps([u EXCEPT !.state = r.state], w, r.out, FALSE)

\* ===================================================== encoder API harness

\* Bytes with no run of ones, with runs of six and more, and with runs that
\* join across a byte boundary (bits are taken least significant first).
TestBytes == {0, 1, 3, 63, 126, 252, 254, 255}

Payloads == SeqsUpTo(TestBytes, MaxPayloadLen)

SeqBytes == {0, 255}

SeqPayloads == SeqsUpTo(SeqBytes, MaxSeqPayloadLen)

Signalings == {"ls", "fs"}

EncoderInit ==
    /\ \E sig \in Signalings, n \in 1..MaxInterpolate :
          /\ args = [signaling |-> sig, interpolate |-> n]
          /\ sr = SimpleSRWriter(<<"D-", "D+">>, USB_SPEED[sig] * n,
                                 DefaultSliceLimit)
          /\ usb = USBSignaling(sr, n, sig)
    /\ pcap = <<>>
    /\ pc = "api"
    /\ pkt_i = 0
    /\ last_pkt_at = 0
    /\ begins_at_ticks = 0
    /\ ends_at_ticks = 0
    /\ error = "none"
    /\ written = <<>>
    /\ chirps = <<>>
    /\ pktlog = <<>>
    /\ closes = 0
    /\ peak = 0
    /\ call = [op |-> "init", n |-> 0]

\* The effect of one encoder call with result r on the objects and history.
Emitted(r) ==
    /\ usb' = r.usb
    /\ sr' = r.sr
    /\ written' = written \o r.wrote
    /\ chirps' = chirps \o r.seq
    /\ peak' = Max(peak, r.held)

EmitSync ==
    /\ pc = "api" /\ call.n < MaxCalls
    /\ LET r == emit_sync(usb, sr) IN
       /\ Emitted(r)
       /\ call' = [op |-> "emit_sync", n |-> call.n + 1, err |-> r.err,
                   state0 |-> usb.state, out |-> r.seq, wrote |-> r.wrote,
                   pre |-> sr]
    /\ UNCHANGED <<pc, closes>>
    /\ UNCHANGED runvars

EmitEop ==
    /\ pc = "api" /\ call.n < MaxCalls
    /\ LET r == emit_eop(usb, sr) IN
       /\ Emitted(r)
       /\ call' = [op |-> "emit_eop", n |-> call.n + 1, err |-> r.err,
                   state0 |-> usb.state, out |-> r.seq, wrote |-> r.wrote,
                   pre |-> sr]
    /\ UNCHANGED <<pc, closes>>
    /\ UNCHANGED runvars

EmitStall ==
    /\ pc = "api" /\ call.n < MaxCalls
    /\ \E c \in -1..MaxStall :
          LET r == emit_stall(usb, sr, c) IN
          /\ Emitted(r)
          /\ call' = [op |-> "emit_stall", n |-> call.n + 1, err |-> r.err,
                      state0 |-> usb.state, out |-> r.seq, wrote |-> r.wrote,
                      cycles |-> c, pre |-> sr]
    /\ UNCHANGED <<pc, closes>>
    /\ UNCHANGED runvars

EmitBytes ==
    /\ pc = "api" /\ call.n < MaxCalls
    /\ \E p \in SeqPayloads :
          LET r == emit_bytes(usb, sr, p) IN
          /\ Emitted(r)
          /\ call' = [op |-> "emit_bytes", n |-> call.n + 1, err |-> r.err,
                      state0 |-> usb.state, out |-> r.seq, wrote |-> r.wrote,
                      payload |-> p, pre |-> sr]
    /\ UNCHANGED <<pc, closes>>
    /\ UNCHANGED runvars

EncoderNext == EmitSync \/ EmitEop \/ EmitStall \/ EmitBytes

SpecEncoder == EncoderInit /\ [][EncoderNext]_vars

\* ==================================================== emit_bytes by itself

\* emit_bytes as a function of the payload and of the line state it starts
\* from: an encoder in either line state, and one call.
BytesInit ==
    /\ \E sig \in Signalings, n \in 1..MaxInterpolate, s0 \in {"j", "k"} :
          /\ args = [signaling |-> sig, interpolate |-> n]
          /\ sr = SimpleSRWriter(<<"D-", "D+">>, USB_SPEED[sig] * n,
                                 DefaultSliceLimit)
          /\ usb = [USBSignaling(sr, n, sig) EXCEPT !.state = s0]
    /\ pcap = <<>>
    /\ pc = "api"
    /\ pkt_i = 0
    /\ last_pkt_at = 0
    /\ begins_at_ticks = 0
    /\ ends_at_ticks = 0
    /\ error = "none"
    /\ written = <<>>
    /\ chirps = <<>>
    /\ pktlog = <<>>
    /\ closes = 0
    /\ peak = 0
    /\ call = [op |-> "init", n |-> 0]

BytesEmit ==
    /\ pc = "api" /\ call.n = 0
    /\ \E p \in Payloads :
          LET r == emit_bytes(usb, sr, p) IN
          /\ Emitted(r)
          /\ call' = [op |-> "emit_bytes", n |-> call.n + 1, err |-> r.err,
                      state0 |-> usb.state, out |-> r.seq, wrote |-> r.wrote,
                      payload |-> p,
                      stuffed |-> to_chirp(usb.state, p).stuffed]
    /\ UNCHANGED <<pc, closes>>
    /\ UNCHANGED runvars

SpecBytes == BytesInit /\ [][BytesEmit]_vars

\* =============================================================== __main__

\* Timestamps are exact rationals: pkt.time counts 1/TimeDen seconds, so that
\* delta * speed is a multiple of 1/TimeSub cycle on either profile.
TimeDen == TimeSub * USB_SPEED["fs"]

\* Python's round() of the rational num/den (den > 0): to nearest, a tie to
\* the even neighbour. \div floors and % is non-negative, for any sign of num.
Round(num, den) ==
    LET q == num \div den
        r == num % den
    IN  IF 2 * r < den THEN q
        ELSE IF 2 * r > den THEN q + 1
        ELSE IF q % 2 = 0 THEN q ELSE q + 1

\* delta_ticks_interpacket = round((pkt.time - last_pkt_at) * speed)
DeltaTicksInterpacket(a, pkt_time, last) ==
    Round((pkt_time - last) * USB_SPEED[a.signaling], TimeDen)

\* Mutant: the overrun test tolerates one cycle too many.
Overrun_off_by_one(intra, inter) == intra > inter + 1

\* `if delta_ticks_intrapacket > delta_ticks_interpacket: raise RuntimeError`
Overrun(intra, inter) == intra > inter

\* Mutant: the stall ignores the cycles the previous packet took.
StallTicks_whole_gap(inter, intra) == inter

\* Mutant: the operands of the subtraction are exchanged.
StallTicks_reversed(inter, intra) == intra - inter

\* stall_ticks = delta_ticks_interpacket - delta_ticks_intrapacket
StallTicks(inter, intra) == inter - intra

\* The signaling parameter's default, which the call in __main__ relies on:
\* USBSignaling(args.signaling, args.interpolate) binds sr and interpolate.
SignalingDefault == "fs"

MainUSBSignaling(a) == USBSignaling(a.signaling, a.interpolate, SignalingDefault)

\* Mutant: an exception leaves the block without closing the writer.
LeaveWith_skips_close_on_error(err) == IF err = "none" THEN "closing" ELSE "done"

\* contextlib.closing: however the with block is left, close() runs next.
LeaveWith(err) == "closing"

\* ---- the inputs of a run

RunLoads == {<<>>, <<255>>}

DeltaTicks == {10, 21}

\* Gaps between packets in 1/TimeSub cycles: a step back in time, and gaps
\* just short of, and (once rounded) just reaching, the 11 and 22 cycles the
\* two loads take to encode.
RunDeltas == {-TimeSub} \cup {t * TimeSub + f : t \in DeltaTicks, f \in 0..(TimeSub - 1)}

Pads == -1..MaxPad

EndPads == {-1, 0, 1}

\* __main__ passes slice_limit=16777216; the scaled limit stands for a
\* capture long enough to fill slices.
RunSliceLimits == {DefaultSliceLimit, ScaledSliceLimit}

RECURSIVE Timed(_, _, _, _)
\* The packets with loads `loads`, the k-th one deltas[k-1] after the one
\* before it; the first at time 0.
Timed(loads, deltas, unit, t) ==
    IF loads = <<>> THEN <<>>
    ELSE <<[time |-> t, load |-> Head(loads)]>>
         \o (IF deltas = <<>> THEN <<>>
             ELSE Timed(Tail(loads), Tail(deltas), unit, t + Head(deltas) * unit))

RunInit ==
    /\ \E sig \in Signalings, n \in {1, MaxInterpolate}, sp \in Pads,
          ep \in EndPads :
          args = [signaling |-> sig, interpolate |-> n,
                  start_padding |-> sp, end_padding |-> ep]
    /\ \E m \in 1..MaxPackets :
          \E loads \in [1..m -> RunLoads], deltas \in [1..(m - 1) -> RunDeltas] :
             pcap = Timed(loads, deltas,
                          USB_SPEED["fs"] \div USB_SPEED[args.signaling], 0)
    /\ \E lim \in RunSliceLimits :
          sr = SimpleSRWriter(<<"D-", "D+">>,
                              USB_SPEED[args.signaling] * args.interpolate,
                              lim)
    /\ usb = MainUSBSignaling(args)
    /\ pc = "start_padding"
    /\ pkt_i = 1
    /\ last_pkt_at = pcap[1].time
    /\ begins_at_ticks = 0
    /\ ends_at_ticks = 0
    /\ error = "none"
    /\ written = <<>>
    /\ chirps = <<>>
    /\ pktlog = <<>>
    /\ closes = 0
    /\ peak = 0
    /\ call = [op |-> "init", n |-> 0]

\* ---- the statements of the with block

\* usb.emit_stall(args.start_padding); begins_at_ticks = ends_at_ticks = ...
RunStartPadding ==
    /\ pc = "start_padding"
    /\ LET r == emit_stall(usb, sr, args.start_padding) IN
       /\ Emitted(r)
       /\ IF r.err # "none"
          THEN /\ error' = r.err
               /\ pc' = LeaveWith(r.err)
               /\ UNCHANGED <<begins_at_ticks, ends_at_ticks>>
          ELSE /\ begins_at_ticks' = sample_count(r.sr) \div args.interpolate
               /\ ends_at_ticks' = sample_count(r.sr) \div args.interpolate
               /\ pc' = "for"
               /\ UNCHANGED error
    /\ UNCHANGED <<args, pcap, pkt_i, last_pkt_at, pktlog, closes, call>>

\* The head of one iteration: the overrun test, the stall, begins_at_ticks.
RunPacket ==
    /\ pc = "for"
    /\ pkt_i <= Len(pcap)
    /\ LET inter == DeltaTicksInterpacket(args, pcap[pkt_i].time, last_pkt_at)
           intra == ends_at_ticks - begins_at_ticks
           r == emit_stall(usb, sr, StallTicks(inter, intra))
       IN  IF Overrun(intra, inter)
           THEN /\ error' = "RuntimeError"
                /\ pc' = LeaveWith("RuntimeError")
                /\ UNCHANGED <<sr, usb, written, chirps, peak, begins_at_ticks>>
           ELSE /\ Emitted(r)
                /\ IF r.err # "none"
                   THEN /\ error' = r.err
                        /\ pc' = LeaveWith(r.err)
                        /\ UNCHANGED begins_at_ticks
                   ELSE /\ begins_at_ticks' =
                              sample_count(r.sr) \div args.interpolate
                        /\ pc' = "sync"
                        /\ UNCHANGED error
    /\ UNCHANGED <<args, pcap, pkt_i, last_pkt_at, ends_at_ticks, pktlog,
                   closes, call>>

\* usb.emit_sync()
RunSync ==
    /\ pc = "sync"
    /\ LET r == emit_sync(usb, sr) IN
       /\ Emitted(r)
       /\ pktlog' = Append(pktlog, [begin |-> Len(written), end |-> -1])
       /\ IF r.err # "none"
          THEN error' = r.err /\ pc' = LeaveWith(r.err)
          ELSE pc' = "bytes" /\ UNCHANGED error
    /\ UNCHANGED <<args, pcap, pkt_i, last_pkt_at, begins_at_ticks,
                   ends_at_ticks, closes, call>>

\* usb.emit_bytes(pkt.load)
RunBytes ==
    /\ pc = "bytes"
    /\ LET r == emit_bytes(usb, sr, pcap[pkt_i].load) IN
       /\ Emitted(r)
       /\ IF r.err # "none"
          THEN error' = r.err /\ pc' = LeaveWith(r.err)
          ELSE pc' = "eop" /\ UNCHANGED error
    /\ UNCHANGED <<args, pcap, pkt_i, last_pkt_at, begins_at_ticks,
                   ends_at_ticks, pktlog, closes, call>>

\* usb.emit_eop(); ends_at_ticks = ...; last_pkt_at = pkt.time
RunEop ==
    /\ pc = "eop"
    /\ LET r == emit_eop(usb, sr) IN
       /\ Emitted(r)
       /\ IF r.err # "none"
          THEN /\ error' = r.err
               /\ pc' = LeaveWith(r.err)
               /\ UNCHANGED <<ends_at_ticks, last_pkt_at, pkt_i, pktlog>>
          ELSE /\ ends_at_ticks' = sample_count(r.sr) \div args.interpolate
               /\ last_pkt_at' = pcap[pkt_i].time
               /\ pkt_i' = pkt_i + 1
               /\ pktlog' = [pktlog EXCEPT ![Len(pktlog)].end =
                                               Len(written) + Len(r.wrote)]
               /\ pc' = "for"
               /\ UNCHANGED error
    /\ UNCHANGED <<args, pcap, begins_at_ticks, closes, call>>

\* The for loop is exhausted.
RunForExit ==
    /\ pc = "for"
    /\ pkt_i > Len(pcap)
    /\ pc' = "end_padding"
    /\ UNCHANGED <<sr, usb, written, chirps, peak, closes, call>>
    /\ UNCHANGED runvars

\* usb.emit_stall(args.end_padding), the last statement of the block.
RunEndPadding ==
    /\ pc = "end_padding"
    /\ LET r == emit_stall(usb, sr, args.end_padding) IN
       /\ Emitted(r)
       /\ error' = r.err
       /\ pc' = LeaveWith(r.err)
    /\ UNCHANGED <<args, pcap, pkt_i, last_pkt_at, begins_at_ticks,
                   ends_at_ticks, pktlog, closes, call>>

\* contextlib.closing's exit: sr.close().
RunClose ==
    /\ pc = "closing"
    /\ sr' = close(sr)
    /\ closes' = closes + 1
    /\ pc' = "done"
    /\ UNCHANGED <<usb, written, chirps, peak, call>>
    /\ UNCHANGED runvars

Next ==
    \/ RunStartPadding
    \/ RunPacket
    \/ RunSync
    \/ RunBytes
    \/ RunEop
    \/ RunForExit
    \/ RunEndPadding
    \/ RunClose

Spec == RunInit /\ [][Next]_vars

\* ---- runs of many short packets

\* Gaps of 11 cycles and of 11 cycles and a fraction: an empty packet takes
\* 11 cycles (SYNC and EOP), so every such gap is long enough.
DriftDeltas == {11 * TimeSub + f : f \in 0..(TimeSub - 1)}

\* __main__ on a capture of up to MaxDriftPackets empty packets, no padding.
DriftInit ==
    /\ \E sig \in Signalings :
          args = [signaling |-> sig, interpolate |-> 1,
                  start_padding |-> 0, end_padding |-> 0]
    /\ \E m \in 1..MaxDriftPackets :
          \E deltas \in [1..(m - 1) -> DriftDeltas] :
             pcap = Timed([k \in 1..m |-> <<>>], deltas,
                          USB_SPEED["fs"] \div USB_SPEED[args.signaling], 0)
    /\ sr = SimpleSRWriter(<<"D-", "D+">>,
                           USB_SPEED[args.signaling] * args.interpolate,
                           DefaultSliceLimit)
    /\ usb = MainUSBSignaling(args)
    /\ pc = "start_padding"
    /\ pkt_i = 1
    /\ last_pkt_at = pcap[1].time
    /\ begins_at_ticks = 0
    /\ ends_at_ticks = 0
    /\ error = "none"
    /\ written = <<>>
    /\ chirps = <<>>
    /\ pktlog = <<>>
    /\ closes = 0
    /\ peak = 0
    /\ call = [op |-> "init", n |-> 0]

SpecDrift == DriftInit /\ [][Next]_vars

\* ================================================================= claims

\* ---- reference notions the claims are stated with

\* The data bits of a payload: least significant bit first, bytes ascending.
PayloadBits(seq) ==
    [i \in 1..(8 * Len(seq)) |->
        (seq[((i - 1) \div 8) + 1] \div (2 ^ ((i - 1) % 8))) % 2]

RECURSIVE StuffedInRuns(_, _)
\* The sum of floor(r / 6) over the maximal runs of r ones in `bits`; `run`
\* is the number of ones since the last zero or the last sixth one.
StuffedInRuns(bits, run) ==
    IF bits = <<>> THEN 0
    ELSE IF Head(bits) = 0 THEN StuffedInRuns(Tail(bits), 0)
    ELSE IF run + 1 = 6 THEN 1 + StuffedInRuns(Tail(bits), 0)
    ELSE StuffedInRuns(Tail(bits), run + 1)

RECURSIVE NrziDecode(_, _, _)
\* A standard NRZI receiver with bit unstuffing: no transition is a 1, a
\* transition is a 0, the symbol after six consecutive ones is dropped.
NrziDecode(prev, ones, syms) ==
    IF syms = <<>> THEN <<>>
    ELSE IF ones = 6 THEN NrziDecode(Head(syms), 0, Tail(syms))
    ELSE IF Head(syms) = prev
         THEN <<1>> \o NrziDecode(Head(syms), ones + 1, Tail(syms))
         ELSE <<0>> \o NrziDecode(Head(syms), 0, Tail(syms))

\* Bits to bytes, least significant bit first; a trailing group of fewer
\* than eight bits makes a byte of its own.
BitsToBytes(bits) ==
    [b \in 1..((Len(bits) + 7) \div 8) |->
        LET lo == 8 * (b - 1) + 1
            hi == IF 8 * b <= Len(bits) THEN 8 * b ELSE Len(bits)
            RECURSIVE val(_)
            val(i) == IF i > hi THEN 0 ELSE bits[i] * (2 ^ (i - lo)) + val(i + 1)
        IN  val(lo)]

\* `seq` has n consecutive equal elements somewhere (n >= 1).
HasRun(seq, n) ==
    \E i \in 1..(Len(seq) - n + 1) : \A k \in i..(i + n - 1) : seq[k] = seq[i]

BytesEmitted == call.op = "emit_bytes" /\ call.err = "none"

\* C1: emit_bytes inserts one stuffed symbol after every 6th consecutive
\* 1-bit and restarts the count, so a maximal run of r ones yields floor(r/6)
\* stuffed symbols and 8*len(payload) plus that many symbols are emitted.
\* The code never resets `stuff` in the stuffing branch, so this fails.
C1_StuffedOncePerSixOnes ==
    BytesEmitted =>
        Len(call.out) =
            8 * Len(call.payload) + StuffedInRuns(PayloadBits(call.payload), 0)

\* C2: decoding the chirps emitted by emit_bytes(payload) with a standard
\* NRZI receiver that unstuffs reproduces the payload. Fails with C1.
C2_RoundTrip ==
    BytesEmitted =>
        BitsToBytes(NrziDecode(call.state0, 0, call.out)) = call.payload

\* C10 as stated: with interpolation factor 1 the chirps emitted by
\* emit_bytes never hold six or more consecutive symbols of one level.
C10_NoRunOfSix ==
    (BytesEmitted /\ usb.interpolate = 1) => ~HasRun(call.out, 6)

\* C10 as amended: with interpolation factor 1 the chirps emitted by
\* emit_bytes never hold eight or more consecutive symbols of one level
\* (seven occur: the symbol of a 0 bit and of the six 1 bits after it).
C10_NoRunOfEight ==
    (BytesEmitted /\ usb.interpolate = 1) => ~HasRun(call.out, 8)

C10_RunOfSeven ==
    /\ BytesEmitted /\ usb.interpolate = 1
    /\ Len(call.payload) = 2
    /\ HasRun(call.out, 7)
    /\ Len(call.out) > 8 * Len(call.payload)

\* ---- the writer (SpecWriter)

Accepted == call.op \in {"write_samples", "fill_sample"} /\ call.err = "none"

\* C6: sample_count never decreases and equals the bytes accepted so far
\* divided by unit_size; fill_sample(pattern, count) advances it by
\* len(pattern)*count/unit_size, as write_samples of the same bytes does.
\* fill_sample adds to the counter a second time, so this fails.
C6_CounterIsBytesOverUnit ==
    /\ sample_count(sr) * sr.unit_size = Len(written)
    /\ Accepted =>
          sample_count(sr) =
              sample_count(call.pre) + (Len(call.samples) \div sr.unit_size)

\* C8: for slice_limit >= 1 the slice buffer never holds more than
\* slice_limit bytes, every flushed entry has at most slice_limit bytes,
\* every entry but the one close() flushes has exactly slice_limit bytes, and
\* more than slice_limit bytes in total make more than one entry.
C8_SlicesBounded ==
    LET S == SliceEntries(sr) IN
    /\ peak <= sr.slice_limit
    /\ Len(sr.slice_buffer) <= sr.slice_limit
    /\ \A k \in 1..Len(S) :
          /\ Len(S[k].data) <= sr.slice_limit
          /\ (k < Len(S) \/ ~sr.closed) => Len(S[k].data) = sr.slice_limit
    /\ (sr.closed /\ Len(written) > sr.slice_limit) => Len(S) > 1

C8_SeveralSlices ==
    LET S == SliceEntries(sr) IN
    /\ sr.closed
    /\ Len(S) >= 3
    /\ Len(S[Len(S)].data) \in 1..(sr.slice_limit - 1)
    /\ peak = sr.slice_limit
    /\ call.pre.current_slice > 1

\* ---- a run of __main__ (Spec)

Completed == pc = "done" /\ error = "none"

\* Cycles of the bus clock a sample position is into the stream.
TickOf(pos) == pos \div args.interpolate

\* expected_cycles of packet k (k >= 2), from the capture's timestamps.
ExpectedCycles(k) ==
    DeltaTicksInterpacket(args, pcap[k].time, pcap[k - 1].time)

\* Cycles the encoding of packet k took: SYNC, stuffed payload, EOP.
ConsumedCycles(k) == TickOf(pktlog[k].end - pktlog[k].begin)

\* C3: in a run that does not abort, each packet's SYNC begins
\* expected_cycles = round((t_k - t_{k-1}) * speed) cycles after the SYNC of
\* the packet before it, and the first SYNC begins start_padding cycles in.
C3_SyncSpacing ==
    Completed =>
        /\ Len(pktlog) = Len(pcap)
        /\ \A k \in 1..Len(pktlog) : pktlog[k].begin % args.interpolate = 0
        /\ TickOf(pktlog[1].begin) = args.start_padding
        /\ \A k \in 2..Len(pktlog) :
              TickOf(pktlog[k].begin) - TickOf(pktlog[k - 1].begin)
                  = ExpectedCycles(k)

C3_StalledRun ==
    /\ Completed
    /\ Len(pcap) = 2
    /\ args.start_padding > 0
    /\ args.interpolate > 1
    /\ pktlog[2].begin > pktlog[1].end
    /\ pcap[2].load # <<>>

\* Packet k cannot start on time: encoding packet k-1 took more cycles than
\* the gap to packet k allows.
OverrunAt(k) ==
    /\ k - 1 <= Len(pktlog)
    /\ pktlog[k - 1].end >= 0
    /\ ConsumedCycles(k - 1) > ExpectedCycles(k)

\* C4: when encoding packet N took more cycles than expected_cycles of
\* packet N+1, the run aborts with the timing error before any sample of
\* packet N+1 (stall, SYNC, payload, EOP) is written, and the writer is
\* still closed: the archive holds every sample written before the abort.
C4_OverrunAborts ==
    \A k \in 2..Len(pcap) :
        OverrunAt(k) =>
            /\ Len(pktlog) = k - 1
            /\ Len(written) = pktlog[k - 1].end
            /\ pc \in {"for", "closing", "done"}
            /\ pc \in {"closing", "done"} => error = "RuntimeError"
            /\ pc = "done" => /\ sr.closed
                              /\ SliceData(sr) = written

C4_AbortedOnOverrun ==
    /\ pc = "done"
    /\ error = "RuntimeError"
    /\ Len(pcap) = 2
    /\ OverrunAt(2)
    /\ pcap[2].time > pcap[1].time
    /\ Len(SliceEntries(sr)) > 1

\* C5: on every run that opens the writer close() is invoked exactly once,
\* after the last write: a run ends closed whether it completes, aborts on a
\* timing overrun or fails on a negative padding, and everything written
\* was written before close() flushed it.
C5_ClosedOnceAtTheEnd ==
    /\ closes <= 1
    /\ pc \in {"start_padding", "for", "sync", "bytes", "eop", "end_padding",
               "closing", "done"}
    /\ pc = "done" => closes = 1
    /\ sr.closed <=> closes = 1
    /\ sr.closed => pc = "done" /\ SliceData(sr) = written

C5_ClosedAfterRangeError ==
    /\ pc = "done"
    /\ error = "ValueError"
    /\ closes = 1
    /\ args.start_padding >= 0
    /\ written # <<>>

\* C7: after a run that completes without error, the byte lengths of the
\* slice entries add up to sample_count * unit_size.
C7_SlicesHoldAllSamples ==
    Completed =>
        SumLen(SliceEntries(sr)) = sample_count(sr) * sr.unit_size

C7_CompletedWithSlices ==
    /\ Completed
    /\ Len(SliceEntries(sr)) >= 3
    /\ sample_count(sr) > 2 * sr.slice_limit
    /\ args.end_padding > 0

\* The samples profile `sig` assigns to the chirps `seq`, each n times.
ProfileSamples(sig, n, seq) ==
    [i \in 1..(Len(seq) * n) |->
        CHIRP_TO_SAMPLE[sig][seq[((i - 1) \div n) + 1]]]

\* C9: in a run configured with profile p every sample written for a chirp
\* is the value profile p's table assigns to it, replicated `interpolate`
\* times; a run configured as ls produces no fs-polarity samples.
\* __main__ passes args.signaling as the constructor's `sr` parameter, so
\* the encoder always uses the default profile and this fails for ls.
C9_SamplesFollowProfile ==
    written = ProfileSamples(args.signaling, args.interpolate, chirps)

\* ------------------------------------------------------------------ C11
\* NRZI of the data bits, least significant bit first, bytes in order.

Other(c) == IF c = "j" THEN "k" ELSE "j"

\* The position in the emitted chirps of the i-th data bit's symbol: the
\* i-th position that was not produced by the stuffing branch.
DataPos(i) ==
    CHOOSE p \in 1..Len(call.out) :
        /\ p \notin call.stuffed
        /\ Cardinality({q \in 1..p : q \notin call.stuffed}) = i

\* The symbol emitted just before position p, or the starting state.
Preceding(p) == IF p = 1 THEN call.state0 ELSE call.out[p - 1]

\* Every data bit has its symbol, a 0 bit's symbol is the opposite of the
\* symbol emitted just before it (the starting state for the first bit) and
\* a 1 bit's symbol repeats it.
NrziLaw ==
    LET bits == PayloadBits(call.payload) IN
    /\ Cardinality({q \in 1..Len(call.out) : q \notin call.stuffed})
          = 8 * Len(call.payload)
    /\ \A i \in 1..Len(bits) :
          call.out[DataPos(i)] = IF bits[i] = 0
                                 THEN Other(Preceding(DataPos(i)))
                                 ELSE Preceding(DataPos(i))

ZeroByteFromJ ==
    /\ BytesEmitted
    /\ args.signaling = "ls"
    /\ call.state0 = "j"
    /\ call.payload = <<0>>

\* C11 as stated: emit_bytes(b'\x00') on the low-speed profile from state J
\* emits exactly eight symbols in the order j,k,j,k,j,k,j,k, none of them
\* stuffed; every 0 bit toggles relative to the symbol before it and every
\* 1 bit repeats it, bits taken least significant first.
C11_ZeroByteStartsWithJ ==
    BytesEmitted =>
        /\ NrziLaw
        /\ ZeroByteFromJ =>
              /\ call.out = <<"j", "k", "j", "k", "j", "k", "j", "k">>
              /\ call.stuffed = {}

\* C11 amended: the eight symbols of emit_bytes(b'\x00') from state J come in
\* the order k,j,k,j,k,j,k,j (the first 0 bit already toggles away from the
\* starting state J), none of them stuffed; every 0 bit toggles relative to the symbol before it and
\* every 1 bit repeats it, bits taken least significant first.
C11_ZeroByteStartsWithK ==
    BytesEmitted =>
        /\ NrziLaw
        /\ ZeroByteFromJ =>
              /\ call.out = <<"k", "j", "k", "j", "k", "j", "k", "j">>
              /\ call.stuffed = {}
              /\ usb.state = "j"

C11_ZeroByteEmitted == ZeroByteFromJ /\ Len(call.out) = 8

\* ------------------------------------------------------------------ C12

SyncCalled == call.op = "emit_sync"

\* C12: emit_sync, from any persisted line state, writes the symbols
\* K,J,K,J,K,J,K,K in that order, each as N copies of its mapped sample (the
\* bytes 1,2,1,2,1,2,1,1 on the full-speed profile with N = 1), advances the
\* sample counter by 8*N and leaves the persisted line state K.
C12_SyncPattern ==
    SyncCalled =>
        LET pattern == <<"k", "j", "k", "j", "k", "j", "k", "k">>
            N == args.interpolate
        IN  /\ call.err = "none"
            /\ call.out = pattern
            /\ call.wrote = ProfileSamples(args.signaling, N, pattern)
            /\ (args.signaling = "fs" /\ N = 1)
                  => call.wrote = <<1, 2, 1, 2, 1, 2, 1, 1>>
            /\ Len(written) >= 8 * N
            /\ SubSeq(written, Len(written) - 8 * N + 1, Len(written))
                  = call.wrote
            /\ sample_count(sr) = sample_count(call.pre) + 8 * N
            /\ usb.state = "k"

C12_SyncFromK ==
    /\ SyncCalled
    /\ call.state0 = "k"
    /\ args.signaling = "fs" /\ args.interpolate = 1
    /\ call.wrote = <<1, 2, 1, 2, 1, 2, 1, 1>>

\* ------------------------------------------------------------------ C14

StallCalled == call.op = "emit_stall"

\* The call left the writer and the persisted line state as they were.
StallChangedNothing ==
    /\ call.wrote = <<>> /\ call.out = <<>>
    /\ sr = call.pre
    /\ sample_count(sr) = sample_count(call.pre)
    /\ usb.state = call.state0

\* C14: emit_stall with a negative cycle count always fails with a range
\* error, writes no sample and leaves the persisted line state and
\* sample_count unchanged; emit_stall(0) writes nothing and changes nothing.
C14_StallRangeError ==
    StallCalled =>
        /\ call.cycles < 0 => (call.err = "ValueError" /\ StallChangedNothing)
        /\ call.cycles = 0 => (call.err = "none" /\ StallChangedNothing)
        /\ call.cycles > 0 => call.err = "none"

C14_NegativeStallAfterWrite ==
    /\ StallCalled
    /\ call.cycles < 0
    /\ call.err = "ValueError"
    /\ written # <<>>

\* ------------------------------------------------------------------ C15

\* The symbol written just before the chirps of the last call, or the
\* constructor's state when nothing was written before it.
PhysicallyPreceding ==
    IF Len(chirps) = Len(call.out) THEN "j"
    ELSE chirps[Len(chirps) - Len(call.out)]

\* C15: after any sequence of emit_sync, emit_bytes, emit_eop and emit_stall
\* calls the persisted line state is J or K and, once anything has been
\* written, it is the last symbol written to the container (an emit_bytes
\* of an empty payload leaves it unchanged); so each emit_bytes starts its
\* NRZI level from the symbol that physically precedes it.
C15_StateIsLastSymbol ==
    /\ usb.state \in {"j", "k"}
    /\ chirps # <<>> =>
          /\ usb.state = chirps[Len(chirps)]
          /\ written # <<>>
          /\ written[Len(written)] = usb.c2s[usb.state]
    /\ written # <<>> => chirps # <<>>
    /\ call.op = "emit_bytes" =>
          /\ call.state0 = PhysicallyPreceding
          /\ call.payload = <<>> => usb.state = call.state0

C15_BytesAfterSync ==
    /\ call.op = "emit_bytes"
    /\ call.n = 2
    /\ call.payload # <<>>
    /\ call.state0 = "k"
    /\ usb.state = "j"

\* ------------------------------------------------------------------ C13

Misaligned ==
    /\ call.op = "write_samples"
    /\ Len(call.samples) % call.pre.unit_size # 0

\* C13: write_samples with a byte length that is not a multiple of
\* unit_size fails with an alignment error and leaves the writer unchanged:
\* the slice buffer, the current slice index, the archive entries and
\* sample_count are all as before the call.
C13_MisalignedWriteChangesNothing ==
    Misaligned =>
        /\ call.err = "ValueError"
        /\ sr.slice_buffer = call.pre.slice_buffer
        /\ sr.current_slice = call.pre.current_slice
        /\ sr.entries = call.pre.entries
        /\ sample_count(sr) = sample_count(call.pre)
        /\ sr = call.pre

C13_MisalignedAfterFlush ==
    /\ Misaligned
    /\ call.err = "ValueError"
    /\ call.pre.slice_buffer # <<>>
    /\ call.pre.current_slice > 1

\* ------------------------------------------------------------------ C17

\* ceil(a / b) for a >= 0, b >= 1.
CeilDiv(a, b) == (a + b - 1) \div b

\* C17: for any sequence of writes followed by close, with slice_limit >= 1,
\* the slice entries concatenated in index order are the accepted write
\* buffers concatenated in call order, the entries are numbered 1, 2, .., k
\* with k = max(1, ceil(total_bytes / slice_limit)), each written once, and
\* the final entry is empty only when no byte was ever written.
C17_SlicesAreTheWrites ==
    (sr.closed /\ sr.slice_limit >= 1) =>
        LET es == SliceEntries(sr)
            k == Len(es)
        IN  /\ SliceData(sr) = written
            /\ \A i \in 1..k : es[i].index = i
            /\ k = Max(1, CeilDiv(Len(written), sr.slice_limit))
            /\ es[k].data = <<>> => written = <<>>

C17_ClosedOnSliceBoundary ==
    /\ sr.closed
    /\ Len(SliceEntries(sr)) >= 2
    /\ Len(written) = 2 * sr.slice_limit
    /\ sr.slice_limit >= 2

\* ------------------------------------------------------------------ C20

LoopEntered ==
    /\ call.op = "write_samples"
    /\ call.err = "none"

\* Slices flushed so far by the call in progress or just returned.
Flushed == sr.current_slice - call.pre.current_slice

\* C20: with slice_limit >= 1 write_samples comes back for every aligned
\* input and every fill level of the buffer (the loop makes at most
\* ceil(len / slice_limit) + 1 passes, fewer than the cap on passes) and
\* flushes at most ceil(len / slice_limit) slices; with slice_limit = 0 and
\* a non-empty input the call never comes back: every pass flushes an empty
\* slice and leaves the whole input still to be written.
C20_LoopTerminatesUnlessLimitZero ==
    LoopEntered =>
        LET len == Len(call.samples)
            lim == sr.slice_limit
        IN  /\ lim >= 1 =>
                  /\ Flushed <= CeilDiv(len, lim)
                  /\ call.passes <= CeilDiv(len, lim) + 1
                  /\ call.passes < MaxLoopPasses
                  /\ pc = "loop" => Len(call.mv) <= len - (call.passes - 1) * lim
                  /\ call.returned => sr = write_samples(call.pre, call.samples).w
            /\ (lim = 0 /\ len > 0) =>
                  /\ pc = "loop"
                  /\ ~call.returned
                  /\ call.mv = call.samples
                  /\ sr.slice_buffer = call.pre.slice_buffer
                  /\ Flushed = call.passes

C20_FlushedAsManyAsAllowed ==
    /\ LoopEntered
    /\ call.returned
    /\ sr.slice_limit >= 1
    /\ call.pre.slice_buffer # <<>>
    /\ Flushed = CeilDiv(Len(call.samples), sr.slice_limit)
    /\ Flushed >= 2

C20_SpinsOnLimitZero ==
    /\ LoopEntered
    /\ sr.slice_limit = 0
    /\ call.samples # <<>>
    /\ call.passes = MaxLoopPasses

\* ------------------------------------------------------------------ C16

\* |a| for an integer a.
Abs(a) == IF a < 0 THEN -a ELSE a

\* TimeDen times the difference, in cycles, between the encoded distance of
\* the SYNCs of packets i and j and (t_j - t_i) * speed.
DriftTimesDen(i, j) ==
    Abs(TimeDen * (TickOf(pktlog[j].begin) - TickOf(pktlog[i].begin))
        - (pcap[j].time - pcap[i].time) * USB_SPEED[args.signaling])

\* C16: for any two packets i < j of a run that does not abort, the cycles
\* between the start of packet i's SYNC and the start of packet j's SYNC
\* differ from (t_j - t_i) * speed by at most one cycle, however many
\* packets lie between them.
\* Every gap is rounded on its own against the previous timestamp, so three
\* gaps of 11.5 cycles are encoded as 36 cycles for 34.5: this fails.
C16_NoDriftBeyondOneCycle ==
    Completed =>
        \A i \in 1..Len(pktlog) : \A j \in (i + 1)..Len(pktlog) :
            DriftTimesDen(i, j) <= TimeDen

\* ------------------------------------------------------------------ C18

\* C18: in the packet loop emit_stall is never called with a negative cycle
\* count, also when timestamps decrease: whenever expected_cycles minus
\* consumed_cycles is negative the overrun test aborts first, so a range
\* error comes only from a negative start_padding (before anything is
\* written) or a negative end_padding (after the last packet).
C18_RangeErrorOnlyFromPadding ==
    /\ error = "ValueError" =>
          \/ /\ args.start_padding < 0
             /\ pkt_i = 1 /\ pktlog = <<>> /\ written = <<>>
          \/ /\ args.end_padding < 0
             /\ pkt_i > Len(pcap) /\ Len(pktlog) = Len(pcap)
    /\ \A k \in 2..Len(pcap) :
          OverrunAt(k) => /\ error # "ValueError"
                          /\ Len(pktlog) < k
    /\ \A k \in 2..Len(pktlog) :
          /\ ExpectedCycles(k) - ConsumedCycles(k - 1) >= 0
          /\ TickOf(pktlog[k].begin - pktlog[k - 1].end)
                = ExpectedCycles(k) - ConsumedCycles(k - 1)

C18_AbortedOnStepBack ==
    /\ pc = "done"
    /\ error = "RuntimeError"
    /\ Len(pcap) = 2
    /\ pcap[2].time < pcap[1].time
    /\ args.start_padding >= 0 /\ args.end_padding >= 0
    /\ Len(pktlog) = 1

\* ------------------------------------------------------------------ C19

\* Chirp number c belongs to a packet (SYNC, payload or EOP).
InPacket(c) ==
    \E k \in 1..Len(pktlog) :
        /\ c > TickOf(pktlog[k].begin)
        /\ pktlog[k].end = -1 \/ c <= TickOf(pktlog[k].end)

\* C19: in every run each stall cycle emitted (start padding, inter-packet
\* stall, end padding) is the J symbol, and emit_sync is always called with
\* the persisted line state J, whatever the payloads: the encoder starts at
\* J and every EOP returns the line to J.
C19_StallsAndSyncStartAtJ ==
    /\ Len(chirps) * args.interpolate = Len(written)
    /\ \A c \in 1..Len(chirps) : ~InPacket(c) => chirps[c] = "j"
    /\ pc \in {"start_padding", "for", "sync", "end_padding"} => usb.state = "j"
    /\ \A k \in 1..Len(pktlog) :
          /\ pktlog[k].begin > 0 => chirps[TickOf(pktlog[k].begin)] = "j"
          /\ pktlog[k].end >= 0 => chirps[TickOf(pktlog[k].end)] = "j"

C19_StallAfterPacketLeftAtK ==
    /\ Completed
    /\ Len(pcap) = 2
    /\ pcap[1].load = <<>>
    /\ chirps[TickOf(pktlog[1].end) - 3] = "k"
    /\ pktlog[2].begin > pktlog[1].end
    /\ args.start_padding > 0 /\ args.end_padding > 0


============================================================================
